---- MODULE Spec2Model ----
(***************************************************************************)
(* Red-black tree of alldroll/rbtree: the node heap with its shared        *)
(* sentinel tNil, the tree engine (find, insert, remove, rotations and     *)
(* both fixups), node navigation (min, max, ceiling, floor), the in-order  *)
(* iterator, and the SubTree view with its subIterator.                    *)
(*                                                                         *)
(* A node is named by the key of the item it was allocated for: the code   *)
(* never moves an item to another node, so the name is stable for as long  *)
(* as the node is linked in the tree.  The node allocated by Insert for a  *)
(* key that is already stored is the scratch node zScratch.                *)
(***************************************************************************)
EXTENDS Integers, Sequences, FiniteSets, TLC

\* ------------------------------------------------------------------ bounds
\* Keys of the specification of the whole Tree interface.
MaxKey == 5
\* Keys of the specification of Insert and Remove alone (deeper trees).
MaxDeepKey == 6
\* Keys of the insert-only specification (deeper trees still).
MaxInsKey == 8
\* Keys and tags of the specification whose items carry a payload.
MaxTagKey == 3
MaxTag == 2
\* Keys and bounds of the specification of the SubTree views.
MaxViewKey == 3
\* Keys of the specification of ceiling and floor.
MaxNavKey == 7
\* Keys of the specification of the rotations.
MaxRotKey == 5
\* How many times the client goes on calling Next() on an iterator that has
\* returned nil.
MaxNils == 2

Keys == 1..MaxKey
DeepKeys == 1..MaxDeepKey
InsKeys == 1..MaxInsKey
TagKeys == 1..MaxTagKey
Tags == 1..MaxTag
ViewKeys == 1..MaxViewKey
NavKeys == 1..MaxNavKey
RotKeys == 1..MaxRotKey

Larger(a, b) == IF a < b THEN b ELSE a
\* The greatest key of any specification.
TopKey ==
  Larger(Larger(Larger(MaxKey, MaxDeepKey), Larger(MaxInsKey, MaxTagKey)),
         Larger(Larger(MaxViewKey, MaxNavKey), MaxRotKey))

\* ------------------------------------------------------------- the heap
red == "red"
black == "black"

\* Pointers.  NilPtr is Go's nil; tNil is the shared sentinel; Dead is a node
\* that is no longer linked in any tree (only the sentinel's parent field can
\* still hold it, and the code never follows it).
NilPtr == 0 - 1
Dead == 0 - 2
tNil == 0
zScratch == TopKey + 1
NodeIds == 1..(TopKey + 1)
Ptrs == {Dead, NilPtr, tNil} \cup NodeIds

\* Items: a key that Less compares, and a tag that it does not.
\* NoItem is the nil Item.
NoItem == [key |-> 0, tag |-> 0]
MkItem(k, t) == [key |-> k, tag |-> t]
Less(a, b) == a.key < b.key

\* A node that is not allocated.
Blank == [color |-> black, item |-> NoItem, left |-> NilPtr, right |-> NilPtr, parent |-> NilPtr]
\* var tNil = &node{black, nil, nil, nil, nil}
SentinelNode(p) == [color |-> black, item |-> NoItem, left |-> NilPtr, right |-> NilPtr, parent |-> p]
\* &node{red, item, tNil, tNil, tNil}
NewNode(item) == [color |-> red, item |-> item, left |-> tNil, right |-> tNil, parent |-> tNil]

\* The machine the tree engine works on: the rbTree's root, the node heap and
\* whether a nil pointer was dereferenced (a Go panic).
Machine(r, n) == [root |-> r, nodes |-> n, panic |-> FALSE]
Panicked(m) == [m EXCEPT !.panic = TRUE]

IsNilDeref(n) == n = NilPtr \/ n = Dead

SetColor(m, n, c) ==
  IF m.panic THEN m
  ELSE IF IsNilDeref(n) THEN Panicked(m)
  ELSE [m EXCEPT !.nodes[n].color = c]
SetLeft(m, n, v) ==
  IF m.panic THEN m
  ELSE IF IsNilDeref(n) THEN Panicked(m)
  ELSE [m EXCEPT !.nodes[n].left = v]
SetRight(m, n, v) ==
  IF m.panic THEN m
  ELSE IF IsNilDeref(n) THEN Panicked(m)
  ELSE [m EXCEPT !.nodes[n].right = v]
SetParent(m, n, v) ==
  IF m.panic THEN m
  ELSE IF IsNilDeref(n) THEN Panicked(m)
  ELSE [m EXCEPT !.nodes[n].parent = v]
SetItem(m, n, v) ==
  IF m.panic THEN m
  ELSE IF IsNilDeref(n) THEN Panicked(m)
  ELSE [m EXCEPT !.nodes[n].item = v]
SetRoot(m, v) == IF m.panic THEN m ELSE [m EXCEPT !.root = v]

\* ------------------------------------------------------------ navigation
\* node.min: NilPtr stands for the panic of n.left on a nil n.
RECURSIVE min(_, _)
min(N, n) ==
  IF IsNilDeref(n) THEN NilPtr
  ELSE IF N[n].left # tNil THEN min(N, N[n].left)
  ELSE n

\* node.max
RECURSIVE max(_, _)
max(N, n) ==
  IF IsNilDeref(n) THEN NilPtr
  ELSE IF N[n].right # tNil THEN max(N, N[n].right)
  ELSE n

\* ---------------------------------------------------------------- find
\* rbTree.find: <<x, y>>, the matching node (or tNil) and the last node visited.
RECURSIVE findFrom(_, _, _, _)
findFrom(N, item, x, y) ==
  IF x = tNil THEN <<x, y>>
  ELSE IF Less(item, N[x].item) THEN findFrom(N, item, N[x].left, x)
  ELSE IF Less(N[x].item, item) THEN findFrom(N, item, N[x].right, x)
  ELSE <<x, y>>

find(m, item) == findFrom(m.nodes, item, m.root, tNil)

\* ------------------------------------------------------- field reads
colorOf(m, n) == m.nodes[n].color
leftOf(m, n) == m.nodes[n].left
rightOf(m, n) == m.nodes[n].right
parentOf(m, n) == m.nodes[n].parent
\* n.parent.parent
grandOf(m, n) == m.nodes[m.nodes[n].parent].parent

\* The link that held old under its parent p (the root field if p is the
\* sentinel) is made to hold new.
relink(m, p, old, new) ==
  IF p = tNil THEN SetRoot(m, new)
  ELSE IF old = leftOf(m, p) THEN SetLeft(m, p, new)
  ELSE SetRight(m, p, new)

\* ------------------------------------------------------------ rotations
\* A faulty leftRotate: the parent link of y.left is not updated.
leftRotateDownKeepsParent(m, x, yl) == SetRight(m, x, yl)

\* x.right = y.left; if y.left != tNil { y.left.parent = x }
leftRotateDown(m, x, yl) ==
  IF yl # tNil THEN SetParent(SetRight(m, x, yl), yl, x) ELSE SetRight(m, x, yl)

\* y.parent = x.parent; the link from x.parent; y.left = x; x.parent = y
leftRotateUp(m, x, y) ==
  SetParent(SetLeft(relink(SetParent(m, y, parentOf(m, x)), parentOf(m, x), x, y), y, x), x, y)

leftRotateAt(m, x, y) ==
  IF IsNilDeref(y) THEN Panicked(m)
  ELSE leftRotateUp(leftRotateDown(m, x, leftOf(m, y)), x, y)

leftRotate(m, x) ==
  IF IsNilDeref(x) THEN Panicked(m) ELSE leftRotateAt(m, x, rightOf(m, x))

\* y.left = x.right; if x.right != tNil { x.right.parent = y }
rightRotateDown(m, y, xr) ==
  IF xr # tNil THEN SetParent(SetLeft(m, y, xr), xr, y) ELSE SetLeft(m, y, xr)

\* x.parent = y.parent; the link from y.parent; x.right = y; y.parent = x
rightRotateUp(m, y, x) ==
  SetParent(SetRight(relink(SetParent(m, x, parentOf(m, y)), parentOf(m, y), y, x), x, y), y, x)

rightRotateAt(m, y, x) ==
  IF IsNilDeref(x) THEN Panicked(m)
  ELSE rightRotateUp(rightRotateDown(m, y, rightOf(m, x)), y, x)

rightRotate(m, y) ==
  IF IsNilDeref(y) THEN Panicked(m) ELSE rightRotateAt(m, y, leftOf(m, y))

\* ---------------------------------------------------------- insertFixup
\* Mutant of insertCase1: the uncle is not recoloured.
insertCase1KeepsUncle(m, p, y, g) == SetColor(SetColor(m, p, black), g, red)

\* case 1, the uncle y is red: parent and uncle black, grandparent red.
insertCase1(m, p, y, g) == SetColor(SetColor(SetColor(m, p, black), y, black), g, red)

\* case 3 with the parent a left child: parent black, grandparent red,
\* rightRotate(z.parent.parent).
insertCase3Left(m, z) ==
  rightRotate(SetColor(SetColor(m, parentOf(m, z), black), grandOf(m, z), red), grandOf(m, z))

\* case 3 with the parent a right child.
insertCase3Right(m, z) ==
  leftRotate(SetColor(SetColor(m, parentOf(m, z), black), grandOf(m, z), red), grandOf(m, z))

RECURSIVE insertFixup(_, _)
insertFixup(m, z) ==
  IF m.panic THEN m
  ELSE IF IsNilDeref(z) \/ IsNilDeref(parentOf(m, z)) THEN Panicked(m)
  ELSE IF colorOf(m, parentOf(m, z)) # red THEN SetColor(m, m.root, black)
  ELSE IF IsNilDeref(grandOf(m, z)) THEN Panicked(m)
  ELSE IF parentOf(m, z) = leftOf(m, grandOf(m, z)) THEN
    IF IsNilDeref(rightOf(m, grandOf(m, z))) THEN Panicked(m)
    ELSE IF colorOf(m, rightOf(m, grandOf(m, z))) = red THEN
      \* case 1
      insertFixup(insertCase1(m, parentOf(m, z), rightOf(m, grandOf(m, z)), grandOf(m, z)),
                  grandOf(m, z))
    ELSE IF z = rightOf(m, parentOf(m, z)) THEN
      \* case 2 -> case 3
      insertFixup(insertCase3Left(leftRotate(m, parentOf(m, z)), parentOf(m, z)),
                  parentOf(m, z))
    ELSE insertFixup(insertCase3Left(m, z), z)
  ELSE
    IF IsNilDeref(leftOf(m, grandOf(m, z))) THEN Panicked(m)
    ELSE IF colorOf(m, leftOf(m, grandOf(m, z))) = red THEN
      insertFixup(insertCase1(m, parentOf(m, z), leftOf(m, grandOf(m, z)), grandOf(m, z)),
                  grandOf(m, z))
    ELSE IF z = leftOf(m, parentOf(m, z)) THEN
      insertFixup(insertCase3Right(rightRotate(m, parentOf(m, z)), parentOf(m, z)),
                  parentOf(m, z))
    ELSE insertFixup(insertCase3Right(m, z), z)

\* --------------------------------------------------------------- insert
\* z.parent = y; the link from y; z.color = red; z.left = tNil; z.right = tNil
insertLink(m, z, y) ==
  SetRight(SetLeft(SetColor(
    IF y = tNil THEN SetRoot(SetParent(m, z, y), z)
    ELSE IF Less(m.nodes[z].item, m.nodes[y].item) THEN SetLeft(SetParent(m, z, y), y, z)
    ELSE SetRight(SetParent(m, z, y), y, z),
    z, red), z, tNil), z, tNil)

\* Mutant of insertFound: an equal item that is already stored is not overwritten.
insertFoundKeepsItem(m, z, x, y) ==
  IF x # tNil THEN [m |-> m, res |-> x]
  ELSE [m |-> insertFixup(insertLink(m, z, y), z), res |-> z]

\* insert once find has returned (x, y).
insertFound(m, z, x, y) ==
  IF x # tNil THEN [m |-> SetItem(m, x, m.nodes[z].item), res |-> x]
  ELSE [m |-> insertFixup(insertLink(m, z, y), z), res |-> z]

\* rbTree.insert: [m, res], the machine after the call and the node returned.
\* z is already allocated in m.nodes.
insertAt(m, z, f) == insertFound(m, z, f[1], f[2])
insert(m, z) == insertAt(m, z, find(m, m.nodes[z].item))

\* ------------------------------------------------------------ transplant
\* A faulty transplant: the parent link of v is not updated.
transplantKeepsParent(m, u, v) == m
\* v.parent = u.parent
transplantAt(m, u, v) == SetParent(m, v, parentOf(m, u))
transplant(m, u, v) == transplantAt(relink(m, parentOf(m, u), u, v), u, v)

\* ---------------------------------------------------------- removeFixup
\* The loop body returns [m, x]: the machine and the fixup pointer for the
\* next turn of the loop.
Turn(m, x) == [m |-> m, x |-> x]

\* case 4 on the left: w takes the colour of x.parent, x.parent and w.right
\* become black, leftRotate(x.parent), x = rb.root.
removeCase4Done(m) == Turn(m, m.root)
removeCase4Left(m, x, w) ==
  IF m.panic \/ IsNilDeref(parentOf(m, x)) THEN Turn(Panicked(m), x)
  ELSE removeCase4Done(
         leftRotate(SetColor(SetColor(SetColor(m, w, colorOf(m, parentOf(m, x))),
                                      parentOf(m, x), black),
                             rightOf(m, w), black),
                    parentOf(m, x)))

\* case 3 on the left: w.left black, w red, rightRotate(w), x = x.parent;
\* then case 4 with the same w.
removeCase3Rotated(m, x, w) == removeCase4Left(m, parentOf(m, x), w)
removeCase3Left(m, x, w) ==
  removeCase3Rotated(rightRotate(SetColor(SetColor(m, leftOf(m, w), black), w, red), w), x, w)

\* cases 2, 3 and 4 on the left, w being the sibling.
removeCasesLeft(m, x, w) ==
  IF m.panic \/ IsNilDeref(w) \/ w = tNil THEN Turn(Panicked(m), x)
  ELSE IF colorOf(m, leftOf(m, w)) = black /\ colorOf(m, rightOf(m, w)) = black THEN
    \* case 2
    Turn(SetColor(m, w, red), parentOf(m, x))
  ELSE IF colorOf(m, rightOf(m, w)) = black THEN removeCase3Left(m, x, w)
  ELSE removeCase4Left(m, x, w)

\* case 1 on the left: w black, x.parent red, leftRotate(x.parent),
\* w = x.parent.right.
removeCase1Rotated(m, x) == removeCasesLeft(m, x, rightOf(m, parentOf(m, x)))
removeCase1Left(m, x, w) ==
  removeCase1Rotated(
    leftRotate(SetColor(SetColor(m, w, black), parentOf(m, x), red), parentOf(m, x)), x)

\* x == x.parent.left, w := x.parent.right
removeFixupLeftOf(m, x, w) ==
  IF IsNilDeref(w) THEN Turn(Panicked(m), x)
  ELSE IF colorOf(m, w) = red THEN removeCase1Left(m, x, w)
  ELSE removeCasesLeft(m, x, w)
removeFixupLeft(m, x) == removeFixupLeftOf(m, x, rightOf(m, parentOf(m, x)))

\* The mirrored side.
removeCase4Right(m, x, w) ==
  IF m.panic \/ IsNilDeref(parentOf(m, x)) THEN Turn(Panicked(m), x)
  ELSE removeCase4Done(
         rightRotate(SetColor(SetColor(SetColor(m, w, colorOf(m, parentOf(m, x))),
                                       parentOf(m, x), black),
                              leftOf(m, w), black),
                     parentOf(m, x)))

removeCase3RotatedRight(m, x, w) == removeCase4Right(m, parentOf(m, x), w)
removeCase3Right(m, x, w) ==
  removeCase3RotatedRight(leftRotate(SetColor(SetColor(m, rightOf(m, w), black), w, red), w), x, w)

removeCasesRight(m, x, w) ==
  IF m.panic \/ IsNilDeref(w) \/ w = tNil THEN Turn(Panicked(m), x)
  ELSE IF colorOf(m, rightOf(m, w)) = black /\ colorOf(m, leftOf(m, w)) = black THEN
    Turn(SetColor(m, w, red), parentOf(m, x))
  ELSE IF colorOf(m, leftOf(m, w)) = black THEN removeCase3Right(m, x, w)
  ELSE removeCase4Right(m, x, w)

removeCase1RotatedRight(m, x) == removeCasesRight(m, x, leftOf(m, parentOf(m, x)))
removeCase1Right(m, x, w) ==
  removeCase1RotatedRight(
    rightRotate(SetColor(SetColor(m, w, black), parentOf(m, x), red), parentOf(m, x)), x)

removeFixupRightOf(m, x, w) ==
  IF IsNilDeref(w) THEN Turn(Panicked(m), x)
  ELSE IF colorOf(m, w) = red THEN removeCase1Right(m, x, w)
  ELSE removeCasesRight(m, x, w)
removeFixupRight(m, x) == removeFixupRightOf(m, x, leftOf(m, parentOf(m, x)))

removeFixupTurn(m, x) ==
  IF x = leftOf(m, parentOf(m, x)) THEN removeFixupLeft(m, x) ELSE removeFixupRight(m, x)

RECURSIVE removeFixupLoop(_)
removeFixupLoop(r) ==
  IF r.m.panic THEN r.m
  ELSE IF IsNilDeref(r.x) THEN Panicked(r.m)
  ELSE IF r.x # r.m.root /\ colorOf(r.m, r.x) = black THEN
    IF IsNilDeref(parentOf(r.m, r.x)) THEN Panicked(r.m)
    ELSE removeFixupLoop(removeFixupTurn(r.m, r.x))
  ELSE SetColor(r.m, r.x, black)

removeFixup(m, x) == removeFixupLoop(Turn(m, x))

\* --------------------------------------------------------------- remove
\* if yColor == black { rb.removeFixup(x) }
removeEnd(m, x, yColor) == IF yColor = black THEN removeFixup(m, x) ELSE m

\* z has two children and y is its successor: the else branch of remove.
\* y.parent == z: x.parent = y; otherwise transplant(y, y.right),
\* y.right = z.right, y.right.parent = y.
removeDetach(m, z, y, x) ==
  IF parentOf(m, y) = z THEN SetParent(m, x, y)
  ELSE SetParent(SetRight(transplant(m, y, x), y, rightOf(m, z)), rightOf(m, z), y)

\* transplant(z, y); y.left = z.left; y.left.parent = y; y.color = z.color
removeAttach(m, z, y) ==
  SetColor(SetParent(SetLeft(transplant(m, z, y), y, leftOf(m, z)), leftOf(m, z), y),
           y, colorOf(m, z))

removeTwo(m, z, y) ==
  removeEnd(removeAttach(removeDetach(m, z, y, rightOf(m, y)), z, y), rightOf(m, y), colorOf(m, y))

remove(m, z) ==
  IF leftOf(m, z) = tNil THEN removeEnd(transplant(m, z, rightOf(m, z)), rightOf(m, z), colorOf(m, z))
  ELSE IF rightOf(m, z) = tNil THEN removeEnd(transplant(m, z, leftOf(m, z)), leftOf(m, z), colorOf(m, z))
  ELSE removeTwo(m, z, min(m.nodes, rightOf(m, z)))

\* ------------------------------------------------------ the public Tree
\* A tree t is [root, length, nodes]: the rbTree's two fields and the heap.
\* A call returns [t, ok, item, err, panic]: the tree after the call, the
\* call's boolean result, its Item result (NoItem is nil), its error result
\* (always nil for an rbTree) and whether it panicked.
Tree(r, len, N) == [root |-> r, length |-> len, nodes |-> N]
NoErr == "nil"
Result(t, ok, item, panic) ==
  [t |-> t, ok |-> ok, item |-> item, err |-> NoErr, panic |-> panic]

\* The heap of a fresh process: only the sentinel exists, its parent being p.
Heap0(p) == [n \in Ptrs |-> IF n = tNil THEN SentinelNode(p) ELSE Blank]

\* New
New(N) == Tree(tNil, 0, N)

\* The heap once node z is no longer referenced by the tree: the node is
\* reclaimed, and a sentinel parent link still holding it is a dead pointer.
Release(N, z) ==
  [n \in DOMAIN N |->
     IF n = z THEN Blank
     ELSE IF n = tNil /\ N[tNil].parent = z THEN [N[tNil] EXCEPT !.parent = Dead]
     ELSE N[n]]

\* z := &node{red, item, tNil, tNil, tNil}: the address of the new node.
Alloc(N, item) == IF N[item.key] = Blank THEN item.key ELSE zScratch

\* rbTree.Len
rbLen(t) == t.length

\* if res == z { rb.length++; result = true }; return result, nil
InsertDone(t, z, r) ==
  IF r.m.panic THEN Result(Tree(r.m.root, t.length, r.m.nodes), FALSE, NoItem, TRUE)
  ELSE IF r.res = z THEN Result(Tree(r.m.root, t.length + 1, r.m.nodes), TRUE, NoItem, FALSE)
  ELSE Result(Tree(r.m.root, t.length, Release(r.m.nodes, z)), FALSE, NoItem, FALSE)

InsertAt(t, item, z) ==
  InsertDone(t, z, insert(Machine(t.root, [t.nodes EXCEPT ![z] = NewNode(item)]), z))

\* rbTree.Insert
Insert(t, item) == InsertAt(t, item, Alloc(t.nodes, item))

\* rb.remove(z); rb.length--; return true, nil
RemoveDone(t, z, m) ==
  IF m.panic THEN Result(Tree(m.root, t.length, m.nodes), FALSE, NoItem, TRUE)
  ELSE Result(Tree(m.root, t.length - 1, Release(m.nodes, z)), TRUE, NoItem, FALSE)

\* Mutant of RemoveAt: the length is decremented before z is tested.
RemoveAtCountsFirst(t, z) ==
  IF z = tNil THEN Result(Tree(t.root, t.length - 1, t.nodes), FALSE, NoItem, FALSE)
  ELSE RemoveDone(t, z, remove(Machine(t.root, t.nodes), z))

\* Remove once find has returned z.
RemoveAt(t, z) ==
  IF z = tNil THEN Result(t, FALSE, NoItem, FALSE)
  ELSE RemoveDone(t, z, remove(Machine(t.root, t.nodes), z))

\* rbTree.Remove
Remove(t, item) == RemoveAt(t, find(Machine(t.root, t.nodes), item)[1])

\* Find once find has returned x.
FindAt(t, x) ==
  IF x = tNil THEN Result(t, FALSE, NoItem, FALSE)
  ELSE Result(t, TRUE, t.nodes[x].item, FALSE)

\* Mutant of Find: the second result of find (the parent) is taken for the first.
FindParent(t, item) == FindAt(t, find(Machine(t.root, t.nodes), item)[2])

\* rbTree.Find
Find(t, item) == FindAt(t, find(Machine(t.root, t.nodes), item)[1])

\* n.item of the node n that min or max returned.
ItemAt(t, n) ==
  IF IsNilDeref(n) THEN Result(t, FALSE, NoItem, TRUE)
  ELSE Result(t, t.nodes[n].item # NoItem, t.nodes[n].item, FALSE)

\* rbTree.Min
Min(t) == ItemAt(t, min(t.nodes, t.root))

\* rbTree.Max
Max(t) == ItemAt(t, max(t.nodes, t.root))

\* ------------------------------------------------------------- iterator
deferencable == "deferencable"
beforeFirst == "beforeFirst"
pastRear == "pastRear"

\* An iterator is [node, state]; NoIter is "no iterator exists".
Iter(n, st) == [node |-> n, state |-> st]
NoIter == Iter(NilPtr, "none")

\* Mutant of NewIterator: the iterator starts at the root, not at its minimum.
NewIteratorAtRoot(t) ==
  IF rbLen(t) = 0 THEN Iter(tNil, beforeFirst)
  ELSE Iter(t.root, beforeFirst)

\* rbTree.NewIterator
NewIterator(t) ==
  IF rbLen(t) = 0 THEN Iter(tNil, beforeFirst)
  ELSE Iter(min(t.nodes, t.root), beforeFirst)

\* iterator.IsValid
IsValid(i) == i.state = deferencable

\* The climb of iterator.Next: <<x, y>> when the loop ends.
RECURSIVE climb(_, _, _)
climb(N, x, y) ==
  IF N[y].parent # tNil /\ N[y].right = x THEN climb(N, y, N[y].parent)
  ELSE <<x, y>>

\* A call of Next returns [it, item]: the iterator after it and the Item.
Yield(i, item) == [it |-> i, item |-> item]

\* it.node = y; if y.right == x { it.state = pastRear; return nil }
iterLand(N, i, x, y) ==
  IF N[y].right = x THEN Yield(Iter(y, pastRear), NoItem)
  ELSE Yield(Iter(y, i.state), N[y].item)

iterClimbed(N, i, c) == iterLand(N, i, c[1], c[2])

\* it.node = it.node.right.min(); return it.node.item
iterDown(N, i, n) == Yield(Iter(n, i.state), N[n].item)

\* iterator.Next
iterNext(N, i) ==
  IF i.state = pastRear \/ i.node = tNil THEN Yield(i, NoItem)
  ELSE IF i.state = beforeFirst THEN Yield(Iter(i.node, deferencable), N[i.node].item)
  ELSE IF N[i.node].right # tNil THEN iterDown(N, i, min(N, N[i.node].right))
  ELSE iterClimbed(N, i, climb(N, i.node, N[i.node].parent))

\* A faulty Get: the node's item is returned whatever the state.
GetIgnoresState(N, i) == N[i.node].item

\* iterator.Get
Get(N, i) == IF ~IsValid(i) THEN NoItem ELSE N[i.node].item

\* ------------------------------------------------------ ceiling and floor
\* A faulty climb: the parent of the leaf is returned without climbing.
ceilingNoClimb(N, ch, parent) == parent

\* The climb of node.ceiling:
\*   for parent != tNil && ch == parent.right { ch = parent; parent = parent.parent }
\* NilPtr stands for the panic of parent.right on a nil parent.
RECURSIVE ceilingClimb(_, _, _)
ceilingClimb(N, ch, parent) ==
  IF parent = tNil THEN parent
  ELSE IF IsNilDeref(parent) THEN NilPtr
  ELSE IF ch = N[parent].right THEN ceilingClimb(N, parent, N[parent].parent)
  ELSE parent

\* node.ceiling, started at p
RECURSIVE ceiling(_, _, _)
ceiling(N, p, item) ==
  IF p = tNil THEN tNil
  ELSE IF IsNilDeref(p) THEN NilPtr
  ELSE IF Less(item, N[p].item)
    THEN IF N[p].left # tNil THEN ceiling(N, N[p].left, item) ELSE p
  ELSE IF Less(N[p].item, item)
    THEN IF N[p].right # tNil THEN ceiling(N, N[p].right, item)
         ELSE ceilingClimb(N, p, N[p].parent)
  ELSE p

\* The climb of node.floor:
\*   for parent != tNil && ch == parent.left { ch = parent; parent = parent.parent }
RECURSIVE floorClimb(_, _, _)
floorClimb(N, ch, parent) ==
  IF parent = tNil THEN parent
  ELSE IF IsNilDeref(parent) THEN NilPtr
  ELSE IF ch = N[parent].left THEN floorClimb(N, parent, N[parent].parent)
  ELSE parent

\* node.floor, started at p
RECURSIVE floor(_, _, _)
floor(N, p, item) ==
  IF p = tNil THEN tNil
  ELSE IF IsNilDeref(p) THEN NilPtr
  ELSE IF Less(N[p].item, item)
    THEN IF N[p].right # tNil THEN floor(N, N[p].right, item) ELSE p
  ELSE IF Less(item, N[p].item)
    THEN IF N[p].left # tNil THEN floor(N, N[p].left, item)
         ELSE floorClimb(N, p, N[p].parent)
  ELSE p

\* ------------------------------------------------------- the SubTree view
ErrorFromGreaterThanToKey == "fromKey should be >= toKey"
ErrorOutOfSubTreeRange == "Given key is out of sub tree range"

\* A subTree is [from, to]: its fromKey and toKey (its tree is the one tree
\* of the model).  A call that builds one returns [st, err].
SubTreeOf(fromKey, toKey) == [from |-> fromKey, to |-> toKey]
NoSubTree == SubTreeOf(NoItem, NoItem)
Built(st, err) == [st |-> st, err |-> err]

\* return false, err (or nil, err) without touching the tree
Refused(t, err) == [Result(t, FALSE, NoItem, FALSE) EXCEPT !.err = err]

\* A faulty rbTree.SubTree: the two keys are compared the other way round.
rbSubTreeSwapped(fromKey, toKey) ==
  IF Less(fromKey, toKey) THEN Built(NoSubTree, ErrorFromGreaterThanToKey)
  ELSE Built(SubTreeOf(fromKey, toKey), NoErr)

\* rbTree.SubTree
rbSubTree(fromKey, toKey) ==
  IF Less(toKey, fromKey) THEN Built(NoSubTree, ErrorFromGreaterThanToKey)
  ELSE Built(SubTreeOf(fromKey, toKey), NoErr)

\* subTree.inRange
inRange(st, item) == ~Less(item, st.from) /\ ~Less(st.to, item)

\* A faulty subTree.Insert: the item is inserted before the range is tested.
subInsertThenCheck(st, t, item) ==
  IF ~inRange(st, item) THEN [Insert(t, item) EXCEPT !.ok = FALSE, !.err = ErrorOutOfSubTreeRange]
  ELSE Insert(t, item)

\* subTree.Insert
subInsert(st, t, item) ==
  IF ~inRange(st, item) THEN Refused(t, ErrorOutOfSubTreeRange)
  ELSE Insert(t, item)

\* subTree.Remove
subRemove(st, t, item) ==
  IF ~inRange(st, item) THEN Refused(t, ErrorOutOfSubTreeRange)
  ELSE Remove(t, item)

\* subTree.Find
subFind(st, t, item) ==
  IF ~inRange(st, item) THEN Refused(t, NoErr)
  ELSE Find(t, item)

\* if node == tNil { return nil }; return node.item
subItemAt(t, node) ==
  IF node = tNil THEN Refused(t, NoErr)
  ELSE ItemAt(t, node)

\* A faulty subTree.Min: the ceiling of toKey is taken.
subMinOfToKey(st, t) == subItemAt(t, ceiling(t.nodes, t.root, st.to))

\* subTree.Min
subMin(st, t) == subItemAt(t, ceiling(t.nodes, t.root, st.from))

\* subTree.Max
subMax(st, t) == subItemAt(t, floor(t.nodes, t.root, st.to))

\* A faulty subTree.SubTree: only fromKey is tested.
subSubTreeChecksFrom(st, fromKey, toKey) ==
  IF ~inRange(st, fromKey) THEN Built(NoSubTree, ErrorOutOfSubTreeRange)
  ELSE rbSubTree(fromKey, toKey)

\* subTree.SubTree
subSubTree(st, fromKey, toKey) ==
  IF ~inRange(st, fromKey) \/ ~inRange(st, toKey) THEN Built(NoSubTree, ErrorOutOfSubTreeRange)
  ELSE rbSubTree(fromKey, toKey)

\* ---------------------------------------------------------- subIterator
\* A subIterator is [iterator, toKey].
SubIter(i, toKey) == [iterator |-> i, toKey |-> toKey]

\* subTree.NewIterator
subNewIterator(st, t) == SubIter(Iter(ceiling(t.nodes, t.root, st.from), beforeFirst), st.to)

\* A faulty clip: an item equal to toKey is clipped too.
subClipAtToKey(si, y) ==
  IF y.item # NoItem /\ ~Less(y.item, si.toKey)
  THEN Yield(SubIter(Iter(y.it.node, pastRear), si.toKey), NoItem)
  ELSE Yield(SubIter(y.it, si.toKey), y.item)

\* item := it.iterator.Next()
\* if item != nil && it.toKey.Less(item) { it.iterator.state = pastRear; return nil }
\* return item
subClip(si, y) ==
  IF y.item # NoItem /\ Less(si.toKey, y.item)
  THEN Yield(SubIter(Iter(y.it.node, pastRear), si.toKey), NoItem)
  ELSE Yield(SubIter(y.it, si.toKey), y.item)

\* subIterator.Next
subNext(N, si) ==
  IF si.iterator.state = pastRear THEN Yield(si, NoItem)
  ELSE subClip(si, iterNext(N, si.iterator))

\* subIterator.IsValid
subIsValid(N, si) ==
  /\ IsValid(si.iterator)
  /\ si.iterator.node # NilPtr
  /\ N[si.iterator.node].item # NoItem
  /\ ~Less(si.toKey, N[si.iterator.node].item)

\* subIterator.Get
subGet(N, si) == IF ~subIsValid(N, si) THEN NoItem ELSE N[si.iterator.node].item

\* ---------------------------------------------------------------- state
VARIABLES
  root,    \* rbTree.root
  length,  \* rbTree.length
  nodes,   \* the heap: every node's fields, the sentinel's included
  it,      \* the client's iterator (of the tree, or of a view: then toKey is the
           \* subIterator's bound), the keys it has yielded so far and how many
           \* times it has returned nil; the client keeps an iterator only until
           \* its next call on the tree or on a view
  view,    \* the client's SubTree view of the tree, if it has one
  keys,    \* the set of keys the client has stored (the abstract set)
  last,    \* the last call the client made and what it returned
  drain    \* the client loop "remove the minimum until empty"

vars == <<root, length, nodes, it, view, keys, last, drain>>

\* The tree the variables hold.
Cur == Tree(root, length, nodes)

Call(op, arg, r) ==
  [op |-> op, arg |-> arg, arg2 |-> NoItem,
   ok |-> r.ok, item |-> r.item, err |-> r.err, panic |-> r.panic]
\* A call with two arguments.
Call2(op, arg, arg2, r) == [Call(op, arg, r) EXCEPT !.arg2 = arg2]
NoCall == Call("New", NoItem, Result(New(Heap0(NilPtr)), FALSE, NoItem, FALSE))

NoIterState == [i |-> NoIter, out |-> <<>>, toKey |-> NoItem, nils |-> 0]
\* The client holds no view.
NoView == [from |-> NoItem, to |-> NoItem, depth |-> 0]
Idle == [phase |-> "idle", todo |-> 0, set |-> {}, out |-> <<>>]

\* The call op(arg) on the tree has returned r.
Returned(op, arg, r) ==
  /\ root' = r.t.root
  /\ length' = r.t.length
  /\ nodes' = r.t.nodes
  /\ last' = Call(op, arg, r)
  /\ it' = NoIterState

\* The iterator's Next has returned r, after the keys in out.
Advanced(r, out) ==
  /\ it' = [i |-> r.it,
            out |-> IF r.item = NoItem THEN out ELSE Append(out, r.item.key),
            toKey |-> NoItem,
            nils |-> IF r.item = NoItem /\ it.nils < MaxNils THEN it.nils + 1 ELSE it.nils]
  /\ last' = Call("Next", NoItem, Result(Cur, r.item # NoItem, r.item, FALSE))
  /\ UNCHANGED <<root, length, nodes>>

\* tree := New()
Init ==
  /\ root = New(Heap0(NilPtr)).root
  /\ length = New(Heap0(NilPtr)).length
  /\ nodes = Heap0(NilPtr)
  /\ it = NoIterState
  /\ view = NoView
  /\ keys = {}
  /\ last = NoCall
  /\ drain = Idle

\* A call is possible while the program has not panicked.
Running == ~last.panic

\* tree.Insert(item)
DoInsert(item) ==
  /\ Running
  /\ Returned("Insert", item, Insert(Cur, item))
  /\ keys' = IF last'.panic THEN keys ELSE keys \cup {item.key}
  /\ UNCHANGED <<view, drain>>

\* tree.Remove(item)
DoRemove(item) ==
  /\ Running
  /\ Returned("Remove", item, Remove(Cur, item))
  /\ keys' = IF last'.panic THEN keys ELSE keys \ {item.key}
  /\ UNCHANGED <<view, drain>>

\* tree.Find(item)
DoFind(item) ==
  /\ Running
  /\ Returned("Find", item, Find(Cur, item))
  /\ UNCHANGED <<view, keys, drain>>

\* tree.Min()
DoMin ==
  /\ Running
  /\ Returned("Min", NoItem, Min(Cur))
  /\ UNCHANGED <<view, keys, drain>>

\* tree.Max()
DoMax ==
  /\ Running
  /\ Returned("Max", NoItem, Max(Cur))
  /\ UNCHANGED <<view, keys, drain>>

\* iter := tree.NewIterator()
DoNewIterator ==
  /\ Running
  /\ it' = [NoIterState EXCEPT !.i = NewIterator(Cur)]
  /\ last' = Call("NewIterator", NoItem, Result(Cur, FALSE, NoItem, FALSE))
  /\ UNCHANGED <<root, length, nodes, view, keys, drain>>

\* iter.Next()
DoNext ==
  /\ Running
  /\ it.i # NoIter
  /\ it.toKey = NoItem
  /\ Advanced(iterNext(nodes, it.i), it.out)
  /\ UNCHANGED <<view, keys, drain>>

TreeNext(K, T) ==
  \/ \E k \in K, t \in T : DoInsert(MkItem(k, t))
  \/ \E k \in K : DoRemove(MkItem(k, 1))
  \/ \E k \in K : DoFind(MkItem(k, 1))
  \/ DoMin
  \/ DoMax
  \/ DoNewIterator
  \/ DoNext

\* The whole Tree interface.
Next == TreeNext(Keys, {1})
Spec == Init /\ [][Next]_vars

\* Insert and Remove alone, on more keys.
NextDeep ==
  \/ \E k \in DeepKeys : DoInsert(MkItem(k, 1))
  \/ \E k \in DeepKeys : DoRemove(MkItem(k, 1))
SpecDeep == Init /\ [][NextDeep]_vars

\* A tree that is only inserted into.  The sentinel is shared by every tree
\* of the process: its parent field is nil, or what a Remove on another tree
\* left there (the sentinel itself, or a node of that tree).
InitInsert ==
  /\ \E p \in {NilPtr, tNil, Dead} : nodes = Heap0(p)
  /\ root = New(nodes).root
  /\ length = New(nodes).length
  /\ it = NoIterState
  /\ view = NoView
  /\ keys = {}
  /\ last = NoCall
  /\ drain = Idle
NextInsert ==
  \/ \E k \in InsKeys : DoInsert(MkItem(k, 1))
  \/ \E k \in InsKeys : DoFind(MkItem(k, 1))
  \/ DoMin
  \/ DoMax
  \/ DoNewIterator
  \/ DoNext
SpecInsert == InitInsert /\ [][NextInsert]_vars

\* Items with a payload that Less does not compare.
NextTag == TreeNext(TagKeys, Tags)
SpecTag == Init /\ [][NextTag]_vars

\* ---------------------------------------------------- calls on a view
\* The subTree the client holds.
CurView == SubTreeOf(view.from, view.to)

\* st, err := SubTree(fromKey, toKey) has returned b, on the tree (depth 1)
\* or on the client's view (depth 2); the client keeps st when err is nil.
ViewBuilt(op, fromKey, toKey, b, depth) ==
  /\ view' = IF b.err = NoErr
             THEN [from |-> b.st.from, to |-> b.st.to, depth |-> depth]
             ELSE view
  /\ last' = Call2(op, fromKey, toKey, [Refused(Cur, b.err) EXCEPT !.ok = (b.err = NoErr)])
  /\ it' = NoIterState
  /\ UNCHANGED <<root, length, nodes, keys, drain>>

\* tree.SubTree(fromKey, toKey)
DoSubTree(fromKey, toKey) ==
  /\ Running
  /\ ViewBuilt("SubTree", fromKey, toKey, rbSubTree(fromKey, toKey), 1)

\* view.SubTree(fromKey, toKey)
DoSubSubTree(fromKey, toKey) ==
  /\ Running
  /\ view # NoView
  /\ ViewBuilt("subTree.SubTree", fromKey, toKey, subSubTree(CurView, fromKey, toKey), 2)

\* view.Insert(item)
DoSubInsert(item) ==
  /\ Running
  /\ view # NoView
  /\ Returned("subTree.Insert", item, subInsert(CurView, Cur, item))
  /\ keys' = IF last'.panic \/ last'.err # NoErr THEN keys ELSE keys \cup {item.key}
  /\ UNCHANGED <<view, drain>>

\* view.Remove(item)
DoSubRemove(item) ==
  /\ Running
  /\ view # NoView
  /\ Returned("subTree.Remove", item, subRemove(CurView, Cur, item))
  /\ keys' = IF last'.panic \/ last'.err # NoErr THEN keys ELSE keys \ {item.key}
  /\ UNCHANGED <<view, drain>>

\* view.Find(item)
DoSubFind(item) ==
  /\ Running
  /\ view # NoView
  /\ Returned("subTree.Find", item, subFind(CurView, Cur, item))
  /\ UNCHANGED <<view, keys, drain>>

\* view.Min()
DoSubMin ==
  /\ Running
  /\ view # NoView
  /\ Returned("subTree.Min", NoItem, subMin(CurView, Cur))
  /\ UNCHANGED <<view, keys, drain>>

\* view.Max()
DoSubMax ==
  /\ Running
  /\ view # NoView
  /\ Returned("subTree.Max", NoItem, subMax(CurView, Cur))
  /\ UNCHANGED <<view, keys, drain>>

\* The client holds the subIterator si.
Holding(si) == [NoIterState EXCEPT !.i = si.iterator, !.toKey = si.toKey]

\* iter := view.NewIterator()
DoSubNewIterator ==
  /\ Running
  /\ view # NoView
  /\ it' = Holding(subNewIterator(CurView, Cur))
  /\ last' = Call("subTree.NewIterator", NoItem, Result(Cur, FALSE, NoItem, FALSE))
  /\ UNCHANGED <<root, length, nodes, view, keys, drain>>

\* The subIterator's Next has returned r.
SubAdvanced(r) ==
  /\ it' = [i |-> r.it.iterator,
            out |-> IF r.item = NoItem THEN it.out ELSE Append(it.out, r.item.key),
            toKey |-> r.it.toKey,
            nils |-> IF r.item = NoItem /\ it.nils < MaxNils THEN it.nils + 1 ELSE it.nils]
  /\ last' = Call("subIterator.Next", NoItem, Result(Cur, r.item # NoItem, r.item, FALSE))
  /\ UNCHANGED <<root, length, nodes>>

\* iter.Next() on a subIterator
DoSubNext ==
  /\ Running
  /\ it.i # NoIter
  /\ it.toKey # NoItem
  /\ SubAdvanced(subNext(nodes, SubIter(it.i, it.toKey)))
  /\ UNCHANGED <<view, keys, drain>>

\* rb.root.ceiling(item), as subTree.Min and subTree.NewIterator call it
DoCeiling(item) ==
  /\ Running
  /\ Returned("ceiling", item, subItemAt(Cur, ceiling(nodes, root, item)))
  /\ UNCHANGED <<view, keys, drain>>

\* rb.root.floor(item), as subTree.Max calls it
DoFloor(item) ==
  /\ Running
  /\ Returned("floor", item, subItemAt(Cur, floor(nodes, root, item)))
  /\ UNCHANGED <<view, keys, drain>>

\* A tree that is only inserted into, and ceiling and floor from its root.
NextNav ==
  \/ \E k \in NavKeys : DoInsert(MkItem(k, 1))
  \/ \E k \in NavKeys : DoCeiling(MkItem(k, 1))
  \/ \E k \in NavKeys : DoFloor(MkItem(k, 1))
SpecNav == InitInsert /\ [][NextNav]_vars

\* A rotation of the tree has left the machine m.
Rotated(t, m) == Result(Tree(m.root, t.length, m.nodes), ~m.panic, NoItem, m.panic)

\* tree.leftRotate(x), x a node of the tree with a right child
DoLeftRotate(x) ==
  /\ Running
  /\ x \in NodeIds
  /\ nodes[x].item # NoItem
  /\ nodes[x].right # tNil
  /\ Returned("leftRotate", nodes[x].item, Rotated(Cur, leftRotate(Machine(root, nodes), x)))
  /\ UNCHANGED <<view, keys, drain>>

\* tree.rightRotate(y), y a node of the tree with a left child
DoRightRotate(y) ==
  /\ Running
  /\ y \in NodeIds
  /\ nodes[y].item # NoItem
  /\ nodes[y].left # tNil
  /\ Returned("rightRotate", nodes[y].item, Rotated(Cur, rightRotate(Machine(root, nodes), y)))
  /\ UNCHANGED <<view, keys, drain>>

\* A tree is built by Insert calls, then rotated at any of its nodes, again
\* and again (as TestRotate does on a tree it builds by hand).
DoBuild(item) ==
  /\ last.op \in {"New", "Insert"}
  /\ DoInsert(item)

NextRotate ==
  \/ \E k \in RotKeys : DoBuild(MkItem(k, 1))
  \/ \E x \in RotKeys : DoLeftRotate(x)
  \/ \E y \in RotKeys : DoRightRotate(y)
SpecRotate == Init /\ [][NextRotate]_vars

\* The tree and its views: Insert on the tree, every call on a view.
NextView ==
  \/ \E k \in ViewKeys : DoInsert(MkItem(k, 1))
  \/ \E f, t \in ViewKeys : DoSubTree(MkItem(f, 1), MkItem(t, 1))
  \/ \E f, t \in ViewKeys : DoSubSubTree(MkItem(f, 1), MkItem(t, 1))
  \/ \E k \in ViewKeys : DoSubInsert(MkItem(k, 1))
  \/ \E k \in ViewKeys : DoSubRemove(MkItem(k, 1))
  \/ \E k \in ViewKeys : DoSubFind(MkItem(k, 1))
  \/ DoSubMin
  \/ DoSubMax
  \/ DoSubNewIterator
  \/ DoSubNext
SpecView == Init /\ [][NextView]_vars

\* The client loop of TestRemove: insert some keys, then
\*   item := tree.Min(); tree.Remove(item)
\* as many times as keys are stored, then iterate from a new iterator.
\* drain.set is the set of keys stored when the loop starts, drain.out the
\* key and result of every Remove so far.
Building == [phase |-> "build", todo |-> 0, set |-> {}, out |-> <<>>]

InitDrain ==
  /\ root = New(Heap0(NilPtr)).root
  /\ length = New(Heap0(NilPtr)).length
  /\ nodes = Heap0(NilPtr)
  /\ it = NoIterState
  /\ view = NoView
  /\ keys = {}
  /\ last = NoCall
  /\ drain = Building

DrainBuild(item) ==
  /\ drain.phase = "build"
  /\ DoInsert(item)

DrainStart ==
  /\ Running
  /\ drain.phase = "build"
  /\ rbLen(Cur) > 0
  /\ drain' = [phase |-> "drain", todo |-> rbLen(Cur), set |-> keys, out |-> <<>>]
  /\ UNCHANGED <<root, length, nodes, it, view, keys, last>>

\* item := tree.Min(); tree.Remove(item)
RemoveMin(t, mn) == IF mn.panic THEN mn ELSE Remove(t, mn.item)

DrainRemoved(mn) ==
  /\ Returned("Remove", mn.item, RemoveMin(Cur, mn))
  /\ keys' = IF last'.panic THEN keys ELSE keys \ {mn.item.key}
  /\ drain' = [drain EXCEPT !.todo = @ - 1,
                            !.out = Append(@, [key |-> mn.item.key, ok |-> last'.ok])]
  /\ UNCHANGED view

DrainStep ==
  /\ Running
  /\ drain.phase = "drain"
  /\ drain.todo > 0
  /\ DrainRemoved(Min(Cur))

\* iter := tree.NewIterator(); iter.Next()
DrainFinish ==
  /\ Running
  /\ drain.phase = "drain"
  /\ drain.todo = 0
  /\ Advanced(iterNext(nodes, NewIterator(Cur)), <<>>)
  /\ drain' = [drain EXCEPT !.phase = "done"]
  /\ UNCHANGED <<view, keys>>

NextDrain ==
  \/ \E k \in Keys : DrainBuild(MkItem(k, 1))
  \/ DrainStart
  \/ DrainStep
  \/ DrainFinish
SpecDrain == InitDrain /\ [][NextDrain]_vars

\* ------------------------------------------- red-black properties (sec. 3)
\* The keys of the subtree of n, in order (left, node, right).
RECURSIVE InOrder(_, _)
InOrder(N, n) ==
  IF n \notin NodeIds THEN <<>>
  ELSE InOrder(N, N[n].left) \o <<N[n].item.key>> \o InOrder(N, N[n].right)

\* The nodes of the subtree of n.
RECURSIVE Subtree(_, _)
Subtree(N, n) ==
  IF n \notin NodeIds THEN {}
  ELSE {n} \cup Subtree(N, N[n].left) \cup Subtree(N, N[n].right)

\* The number of black nodes on every path from n down to a sentinel leaf,
\* the leaf included; Uneven if two paths differ.
Uneven == 0 - 1
RECURSIVE BlackHeight(_, _)
BlackHeight(N, n) ==
  IF n = tNil THEN 1
  ELSE IF n \notin NodeIds THEN Uneven
  ELSE
    LET l == BlackHeight(N, N[n].left)
        r == BlackHeight(N, N[n].right)
    IN IF l = Uneven \/ r = Uneven \/ l # r THEN Uneven
       ELSE l + (IF N[n].color = black THEN 1 ELSE 0)

StrictlyAscending(s) == \A i \in 1..(Len(s) - 1) : s[i] < s[i + 1]

SentinelBlack == nodes[tNil].color = black
RootBlack == nodes[root].color = black
NoRedRed ==
  \A n \in Subtree(nodes, root) :
    nodes[n].color = red =>
      /\ nodes[nodes[n].left].color = black
      /\ nodes[nodes[n].right].color = black
      /\ nodes[nodes[n].parent].color = black
EvenBlackHeight == BlackHeight(nodes, root) # Uneven
Ordered == StrictlyAscending(InOrder(nodes, root))

RedBlack == SentinelBlack /\ RootBlack /\ NoRedRed /\ EvenBlackHeight /\ Ordered

\* The keys reachable from the root.
StoredKeys == {nodes[n].item.key : n \in Subtree(nodes, root)}

\* The sorted sequence of a set of keys.
RECURSIVE Sorted(_)
Sorted(S) ==
  IF S = {} THEN <<>>
  ELSE LET lo == CHOOSE k \in S : \A j \in S : k <= j
       IN <<lo>> \o Sorted(S \ {lo})

\* The items reachable from the root.
StoredItems == {nodes[n].item : n \in Subtree(nodes, root)}

\* The heap without the items: the links and the colour of every node.
Shape(N) == [n \in DOMAIN N |-> [N[n] EXCEPT !.item = NoItem]]

IsPrefix(a, b) == Len(a) <= Len(b) /\ a = SubSeq(b, 1, Len(a))

\* ---------------------------------------------------------------- claims

\* C1: in a run of Insert calls from New() (any keys, duplicates allowed),
\* after every Insert the root is black, no red node has a red parent or a
\* red child, every path from the root to a sentinel leaf holds the same
\* number of black nodes, and the in-order keys are strictly ascending.
C1_InsertKeepsRedBlack ==
  last.op = "Insert" => (RootBlack /\ NoRedRed /\ EvenBlackHeight /\ Ordered)

\* An Insert has just added the last key of a full tree.
C1_Witness ==
  /\ last.op = "Insert"
  /\ last.ok
  /\ Cardinality(Subtree(nodes, root)) = MaxInsKey

\* C2: in any run of Insert and Remove calls from New(), after every call
\* that returns the tree has all the red-black properties: the sentinel and
\* the root are black, no red node has a red parent, the black height is even
\* and the keys are strictly ordered.
C2_RedBlackAfterEveryCall ==
  (last.op \in {"Insert", "Remove"} /\ ~last.panic) => RedBlack

\* C3: the tree refines a set of keys: every Insert and Remove completes
\* normally, Insert(k) returns true exactly when k was not in the set,
\* Remove(k) returns true exactly when k was in it, and after the call the
\* keys reachable from the root are the set's members and Len() is its size.
C3_RefinesSet ==
  [][last'.op \in {"Insert", "Remove"} =>
       /\ ~last'.panic
       /\ last'.op = "Insert" => (last'.ok <=> last'.arg.key \notin keys)
       /\ last'.op = "Remove" => (last'.ok <=> last'.arg.key \in keys)
       /\ StoredKeys' = keys'
       /\ length' = Cardinality(keys')]_vars

\* C4: after inserting a non-empty set of keys, removing Min() as many times
\* as keys are stored removes the keys in ascending order, every Remove
\* returning true, and ends with Len() = 0 and a new iterator whose Next()
\* yields nothing.
C4_DrainEmptiesTree ==
  /\ drain.phase \in {"drain", "done"} =>
       /\ ~last.panic
       /\ \A i \in DOMAIN drain.out :
            drain.out[i].ok /\ drain.out[i].key = Sorted(drain.set)[i]
  /\ drain.phase = "done" =>
       /\ Len(drain.out) = Cardinality(drain.set)
       /\ length = 0
       /\ last.op = "Next"
       /\ last.item = NoItem

\* C5: after inserting N distinct keys into an empty tree, Len() is N, the
\* keys a new iterator has yielded so far are the first of the N keys in
\* ascending order, and when Next() returns nil all N have been yielded.
C5_IterationRoundTrip ==
  /\ length = Cardinality(keys)
  /\ it.i # NoIter => IsPrefix(it.out, Sorted(keys))
  /\ (it.i # NoIter /\ last.op = "Next" /\ last.item = NoItem) => it.out = Sorted(keys)

\* An iterator over a full tree has yielded every key and then nil.
C5_Witness ==
  /\ it.i # NoIter
  /\ last.op = "Next"
  /\ last.item = NoItem
  /\ Len(it.out) = MaxInsKey

\* C6: Insert of an item whose key is already stored returns false, leaves
\* Len(), the root, every link and every colour unchanged, and the item
\* stored under that key is then the inserted one.
C6_InsertEqualReplaces ==
  [][(last'.op = "Insert" /\ last'.arg.key \in StoredKeys) =>
       /\ ~last'.ok
       /\ ~last'.panic
       /\ length' = length
       /\ root' = root
       /\ Shape(nodes') = Shape(nodes)
       /\ {i \in StoredItems' : i.key = last'.arg.key} = {last'.arg}]_vars

\* An Insert has replaced the item of a stored key in a full tree.
C6_Witness ==
  /\ last.op = "Insert"
  /\ ~last.ok
  /\ last.arg.tag = MaxTag
  /\ last.arg \in StoredItems
  /\ length = MaxTagKey

\* C7: in an insert-only run, Find(k) returns the stored item of key k when
\* k has been inserted and nil when it has not, and changes nothing of the
\* tree.
C7_FindAfterInserts ==
  [][last'.op = "Find" =>
       /\ ~last'.panic
       /\ IF last'.arg.key \in keys
          THEN last'.ok /\ last'.item \in StoredItems /\ last'.item.key = last'.arg.key
          ELSE ~last'.ok /\ last'.item = NoItem
       /\ root' = root
       /\ nodes' = nodes
       /\ length' = length]_vars

\* Find has returned an item that is not at the root of a full tree.
C7_Witness ==
  /\ last.op = "Find"
  /\ last.ok
  /\ last.item # nodes[root].item
  /\ length = MaxInsKey

\* C8: Remove of a key that is not stored returns (false, nil) and leaves
\* the root, every node's links and colour, and Len() unchanged.
C8_RemoveAbsentIsNoOp ==
  [][(last'.op = "Remove" /\ last'.arg.key \notin StoredKeys) =>
       /\ ~last'.ok
       /\ ~last'.panic
       /\ last'.err = NoErr
       /\ root' = root
       /\ nodes' = nodes
       /\ length' = length]_vars

\* Remove of an absent key has returned false on a tree of three keys or more.
C8_Witness ==
  /\ last.op = "Remove"
  /\ ~last.ok
  /\ ~last.panic
  /\ last.arg.key \notin StoredKeys
  /\ length >= 3

\* C9: on a non-empty tree, Next() on an iterator positioned at the maximum
\* yields nothing and puts the iterator in pastRear, so that IsValid() is
\* false.
C9_NextAtMaxIsPastRear ==
  [][(/\ last'.op = "Next"
      /\ length > 0
      /\ it.i.state = deferencable
      /\ it.i.node = max(nodes, root)) =>
       /\ last'.item = NoItem
       /\ it'.i.state = pastRear
       /\ ~IsValid(it'.i)]_vars

\* C10: Min() and Max() on an empty tree complete normally and return nil.
C10_MinMaxOnEmpty ==
  (last.op \in {"Min", "Max"} /\ length = 0) => (~last.panic /\ last.item = NoItem)

\* The stored keys within the bounds of the client's view, toKey included.
InView == {k \in StoredKeys : view.from.key <= k /\ k <= view.to.key}

\* C11: on a view whose range holds no stored key (the tree may hold keys
\* below fromKey or above toKey), Min() and Max() return nil.
C11_EmptyRangeMinMax ==
  (last.op \in {"subTree.Min", "subTree.Max"} /\ InView = {}) =>
    (~last.panic /\ last.item = NoItem)

\* The stored keys k with fromKey <= k < toKey, for the client's view.
BelowToKey == {k \in InView : k < view.to.key}

\* C12: a view's iterator yields, in ascending order, exactly the stored
\* keys k with fromKey <= k < toKey: a stored key equal to toKey is not
\* yielded, and Next() returns nil in its place.
C12_IteratorExcludesToKey ==
  (it.i # NoIter /\ it.toKey # NoItem) =>
    /\ IsPrefix(it.out, Sorted(BelowToKey))
    /\ (last.op = "subIterator.Next" /\ last.item = NoItem) =>
         /\ it.out = Sorted(BelowToKey)
         /\ (\E k \in StoredKeys : view.from.key <= k /\ view.to.key <= k) =>
              it.i.state = pastRear

TreeCall(op, item) ==
  IF op = "subTree.Insert" THEN Insert(Cur, item)
  ELSE IF op = "subTree.Remove" THEN Remove(Cur, item)
  ELSE Find(Cur, item)

\* The step is the call r on the tree.
IsCall(r) ==
  /\ root' = r.t.root
  /\ length' = r.t.length
  /\ nodes' = r.t.nodes
  /\ last'.ok = r.ok
  /\ last'.item = r.item
  /\ last'.err = r.err
  /\ last'.panic = r.panic

\* C14: on a view, Insert(k) and Remove(k) return the out-of-range error and
\* Find(k) returns nil for every k < fromKey and every k >= toKey (k equal to
\* toKey included); for fromKey <= k < toKey the call is the tree's.
C14_RejectsOutsideHalfOpenRange ==
  [][last'.op \in {"subTree.Insert", "subTree.Remove", "subTree.Find"} =>
       IF last'.arg.key < view.from.key \/ last'.arg.key >= view.to.key
       THEN /\ last'.item = NoItem
            /\ ~last'.ok
            /\ last'.op # "subTree.Find" => last'.err = ErrorOutOfSubTreeRange
       ELSE IsCall(TreeCall(last'.op, last'.arg))]_vars

\* C15: when Insert, Remove or SubTree on a view, or SubTree on the tree,
\* returns an error, the tree is unchanged: same root, same links, colours
\* and items of every node, same Len().
C15_ErrorLeavesTreeUnchanged ==
  [][(/\ last'.op \in {"subTree.Insert", "subTree.Remove", "subTree.SubTree", "SubTree"}
      /\ last'.err # NoErr) =>
       /\ ~last'.ok
       /\ ~last'.panic
       /\ root' = root
       /\ nodes' = nodes
       /\ length' = length]_vars

\* Insert on a view of a tree of two keys or more has returned the
\* out-of-range error.
C15_Witness ==
  /\ last.op = "subTree.Insert"
  /\ last.err = ErrorOutOfSubTreeRange
  /\ last.arg.key \notin StoredKeys
  /\ length >= 2

\* C16: tree.SubTree(fromKey, toKey) returns ErrorFromGreaterThanToKey
\* exactly when toKey < fromKey; otherwise (fromKey = toKey included) it
\* returns the view of these bounds and no error, so that every view the
\* client holds has fromKey <= toKey.
C16_SubTreeChecksOrder ==
  [][/\ last'.op = "SubTree" =>
          IF last'.arg2.key < last'.arg.key
          THEN last'.err = ErrorFromGreaterThanToKey /\ ~last'.ok /\ view' = view
          ELSE /\ last'.err = NoErr
               /\ last'.ok
               /\ view' = [from |-> last'.arg, to |-> last'.arg2, depth |-> 1]
     /\ view' # NoView => view'.from.key <= view'.to.key]_vars

\* tree.SubTree has returned a view with fromKey = toKey, the key being stored.
C16_Witness ==
  /\ last.op = "SubTree"
  /\ last.ok
  /\ last.arg = last.arg2
  /\ view.from = view.to
  /\ view.from.key \in StoredKeys

\* The key k lies outside the bounds of the client's view.
OutsideView(k) == k < view.from.key \/ k > view.to.key

C18_AbsentIsAbsorbing ==
  [][last'.op = "Next" =>
       /\ it.nils > 0 => last'.item = NoItem
       /\ last'.item = NoItem => Get(nodes', it'.i) = NoItem]_vars

\* Next() has returned nil again and again on an iterator that is still
\* deferencable, on a tree of two keys or more, a removal having left a node
\* in the sentinel's parent field.
C18_Witness ==
  /\ last.op = "Next"
  /\ it.nils = MaxNils
  /\ it.i.state = deferencable
  /\ length >= 2
  /\ nodes[tNil].parent \in NodeIds

\* The least and the greatest key of a non-empty set of keys.
Least(S) == CHOOSE k \in S : \A j \in S : k <= j
Greatest(S) == CHOOSE k \in S : \A j \in S : j <= k

\* The stored keys not below k, and not above k.
KeysFrom(k) == {j \in StoredKeys : k <= j}
KeysUpTo(k) == {j \in StoredKeys : j <= k}

\* The call has returned the node holding the key Least(S) or Greatest(S) of
\* S (the sentinel, whose item is nil, if S is empty).
ReturnedNodeOf(call, S, k) ==
  /\ ~call.panic
  /\ IF S = {} THEN call.item = NoItem
     ELSE /\ call.item.key = k
          /\ call.item \in StoredItems

\* C19: on every tree built by Insert calls and for every key k,
\* root.ceiling(k) returns the node holding the least stored key >= k, or
\* the sentinel if there is none, root.floor(k) returns the node holding the
\* greatest stored key <= k, or the sentinel if there is none, and neither
\* changes the tree.
C19_CeilingAndFloor ==
  [][last'.op \in {"ceiling", "floor"} =>
       /\ last'.op = "ceiling" =>
            ReturnedNodeOf(last', KeysFrom(last'.arg.key), Least(KeysFrom(last'.arg.key) \cup {TopKey + 1}))
       /\ last'.op = "floor" =>
            ReturnedNodeOf(last', KeysUpTo(last'.arg.key), Greatest(KeysUpTo(last'.arg.key) \cup {0}))
       /\ root' = root
       /\ nodes' = nodes
       /\ length' = length]_vars

\* ceiling(k), k not stored, has gone down the left subtree of the root to a
\* leaf that is not a child of the root and climbed back to the root.
C19_Witness ==
  /\ last.op = "ceiling"
  /\ last.arg.key \notin StoredKeys
  /\ last.item = nodes[root].item
  /\ KeysUpTo(last.arg.key) # {}
  /\ nodes[Greatest(KeysUpTo(last.arg.key) \cup {0})].parent # root

ChildLinksAgree ==
  \A n \in Subtree(nodes, root) :
    /\ nodes[n].left # tNil => nodes[nodes[n].left].parent = n
    /\ nodes[n].right # tNil => nodes[nodes[n].right].parent = n

ParentsAgree ==
  /\ nodes[root].parent = tNil
  /\ ChildLinksAgree

\* The node a rotation at x promotes: x.right for leftRotate, x.left for
\* rightRotate.
Promoted(op, x) == IF op = "leftRotate" THEN nodes[x].right ELSE nodes[x].left

\* C21: leftRotate(x), x having a right child, and rightRotate(y), y having
\* a left child, keep the in-order sequence of the nodes, leave every child's
\* parent link on its parent, make the promoted node the root when the
\* rotated node was the root (and leave the root alone otherwise); and
\* rightRotate of the node that leftRotate(x) promoted gives back the
\* original tree.
C21_Rotations ==
  [][last'.op \in {"leftRotate", "rightRotate"} =>
       /\ ~last'.panic
       /\ InOrder(nodes', root') = InOrder(nodes, root)
       /\ ParentsAgree'
       /\ root' = IF root = last'.arg.key THEN Promoted(last'.op, last'.arg.key) ELSE root
       /\ last'.op = "leftRotate" =>
            rightRotate(Machine(root', nodes'), Promoted(last'.op, last'.arg.key))
              = Machine(root, nodes)]_vars

\* leftRotate has rotated the root of a full tree, the promoted node's left
\* subtree having become the right subtree of the old root.
C21_Witness ==
  /\ last.op = "leftRotate"
  /\ nodes[root].left = last.arg.key
  /\ nodes[last.arg.key].right # tNil
  /\ length = MaxRotKey

====
